---- MODULE Spec2Model ----
(***************************************************************************)
(* Model of the aura-score dashboard (Dashboard, InfrastructureComparison, *)
(* BuilderLeaderboard, Header).                                            *)
(*                                                                         *)
(* Numbers.  Money amounts of a project are non-negative integers.  A      *)
(* JavaScript number computed from them is modelled as an exact rational   *)
(* <<num, den>> with den > 0; the weighted revenue is kept in tenths, so   *)
(* that the weight 0.7 is the integer 7.  Math.log10 and Math.log2 are     *)
(* computed digit by digit on a 24-bit fixed-point mantissa; the value of  *)
(* a band formula a * log(x) + d is kept as the integer floor(2 * value),  *)
(* which is what Math.round and the comparisons of the claims need.        *)
(* Infinity is an integer above every finite score.                        *)
(***************************************************************************)
EXTENDS Integers, Sequences, FiniteSets, TLC

\* ------------------------------------------------------------------------
\* JavaScript numbers
\* ------------------------------------------------------------------------

\* fixed-point unit of a mantissa and of a logarithm: 2^24 and 2^20
MantissaOne == 16777216
LogOne == 1048576
LogBits == 20
MantissaBits == 24

\* the value Infinity: above every score the band formulas can produce
Infinity == 1000000000

\* a rational <<n, d>> compared with the decimal literal c / s
RatLt(x, c, s) == x[1] * s < c * x[2]
RatLe(x, c, s) == x[1] * s <= c * x[2]
\* x * c and x / c for a positive integer c
RatMul(x, c) == <<x[1] * c, x[2]>>
RatDiv(x, c) == <<x[1], x[2] * c>>
\* x <= y and x = y for two rationals, in lowest terms; <<1, 0>> stands for
\* a value above every rational
RECURSIVE GCD(_, _)
GCD(a, b) == IF b = 0 THEN a ELSE GCD(b, a % b)
Reduce(x) == LET g == GCD(x[1], x[2]) IN <<x[1] \div g, x[2] \div g>>
RatLeq(x, y) ==
  LET a == Reduce(x)
      b == Reduce(y)
  IN  a[1] * b[2] <= b[1] * a[2]
RatEq(x, y) == Reduce(x) = Reduce(y)

\* floor(a * b / 2^24) for two fixed-point mantissas, by 15-bit limbs
MulShift(a, b) ==
  LET ah == a \div 32768
      al == a % 32768
      bh == b \div 32768
      bl == b % 32768
  IN  64 * ah * bh + (ah * bl + al * bh) \div 512 + (al * bl) \div MantissaOne

\* <<p, q, e>> with q <= p < base * q and p / q = x / base^e
RECURSIVE Normalize(_, _, _, _)
Normalize(p, q, e, base) ==
  IF p < q THEN Normalize(p * base, q, e - 1, base)
  ELSE IF p >= base * q THEN Normalize(p, q * base, e + 1, base)
  ELSE <<p, q, e>>

\* the k further binary digits of r / q (r < q) appended to m
RECURSIVE Mantissa(_, _, _, _)
Mantissa(r, q, k, m) ==
  IF k = 0 THEN m
  ELSE IF 2 * r >= q THEN Mantissa(2 * r - q, q, k - 1, 2 * m + 1)
       ELSE Mantissa(2 * r, q, k - 1, 2 * m)

\* the k leading binary digits of log_base(m / 2^24), for 1 <= m / 2^24 < base
RECURSIVE LogDigits(_, _, _, _)
LogDigits(m, k, acc, base) ==
  IF k = 0 THEN acc
  ELSE LET s == MulShift(m, m)
       IN  IF s >= base * MantissaOne
           THEN LogDigits(s \div base, k - 1, 2 * acc + 1, base)
           ELSE LogDigits(s, k - 1, 2 * acc, base)

\* floor(log_base(x) * 2^20) of a positive rational x
Log(x, base) ==
  LET n == Normalize(x[1], x[2], 0, base)
      m == Mantissa(n[1] % n[2], n[2], MantissaBits, n[1] \div n[2])
  IN  n[3] * LogOne + LogDigits(m, LogBits, 0, base)

MathLog10(x) == Log(x, 10)
MathLog2(x) == Log(x, 2)

\* floor(2 * (l * a + d)) for a logarithm l in units of 2^-20
Affine(l, a, d) ==
  2 * d + 2 * a * (l \div LogOne) + (2 * a * (l % LogOne)) \div LogOne

\* Math.round of a value v given as floor(2 * v): floor(v + 0.5)
MathRound(h) == (h + 1) \div 2


\* ------------------------------------------------------------------------
\* InfrastructureComparison.calculateAuraScore
\* ------------------------------------------------------------------------

\* `project.annualizedRevenue || 0` and `project.annualizedAppFees || 0`
orZero(field) == IF field = <<>> THEN 0 ELSE field[1]

\* weightedAnnualRevenue with the weight 1.0 for 0.7 on the ecosystem fees
weightedAnnualRevenue_fullFees(project) ==
  LET annualizedRevenue == orZero(project.annualizedRevenue)
      annualizedAppFees == orZero(project.annualizedAppFees)
  IN  IF project.category = "Application" \/ project.category = "dApp"
         \/ project.category = "Stablecoins"
      THEN annualizedRevenue * 10
      ELSE annualizedRevenue * 10 + annualizedAppFees * 10

\* the local weightedAnnualRevenue, in tenths
weightedAnnualRevenue(project) ==
  LET annualizedRevenue == orZero(project.annualizedRevenue)
      annualizedAppFees == orZero(project.annualizedAppFees)
  IN  IF project.category = "Application" \/ project.category = "dApp"
         \/ project.category = "Stablecoins"
      THEN annualizedRevenue * 10
      ELSE LET nativeRevenue == annualizedRevenue * 10
               ecosystemRevenue == annualizedAppFees * 7
           IN  nativeRevenue + ecosystemRevenue

\* the local rawRatio = weightedAnnualRevenue / amountRaised (amountRaised # 0)
rawRatio(project) ==
  <<weightedAnnualRevenue(project), 10 * project.amountRaised>>

\* bandScore with `rawRatio <= 0.1` for `rawRatio < 0.1`
bandScore_inclusive(ratio) ==
  IF RatLe(ratio, 0, 1) THEN 2 * (-1000)
  ELSE IF RatLt(ratio, 1, 1000)
    THEN Affine(MathLog10(RatMul(ratio, 1000)), 200, -800)
  ELSE IF RatLt(ratio, 1, 100)
    THEN Affine(MathLog10(RatMul(ratio, 100)), 150, -200)
  ELSE IF RatLe(ratio, 1, 10)
    THEN Affine(MathLog10(RatMul(ratio, 10)), 200, 200)
  ELSE IF RatLt(ratio, 1, 1)
    THEN Affine(MathLog10(ratio), 300, 700)
  ELSE IF RatLt(ratio, 10, 1)
    THEN Affine(MathLog2(ratio), 400, 700)
  ELSE IF RatLt(ratio, 100, 1)
    THEN Affine(MathLog2(RatDiv(ratio, 10)), 600, 2000)
  ELSE Affine(MathLog2(RatDiv(ratio, 100)), 1000, 5000)

\* the band formulas: auraScore before Math.round, as floor(2 * auraScore)
bandScore(ratio) ==
  IF RatLe(ratio, 0, 1) THEN 2 * (-1000)
  ELSE IF RatLt(ratio, 1, 1000)
    THEN Affine(MathLog10(RatMul(ratio, 1000)), 200, -800)
  ELSE IF RatLt(ratio, 1, 100)
    THEN Affine(MathLog10(RatMul(ratio, 100)), 150, -200)
  ELSE IF RatLt(ratio, 1, 10)
    THEN Affine(MathLog10(RatMul(ratio, 10)), 200, 200)
  ELSE IF RatLt(ratio, 1, 1)
    THEN Affine(MathLog10(ratio), 300, 700)
  ELSE IF RatLt(ratio, 10, 1)
    THEN Affine(MathLog2(ratio), 400, 700)
  ELSE IF RatLt(ratio, 100, 1)
    THEN Affine(MathLog2(RatDiv(ratio, 10)), 600, 2000)
  ELSE Affine(MathLog2(RatDiv(ratio, 100)), 1000, 5000)

\* auraScore with `weightedAnnualRevenue >= 0` for `> 0`
auraScore_geq(project) ==
  IF project.amountRaised = 0
  THEN IF weightedAnnualRevenue(project) >= 0 THEN Infinity ELSE 0
  ELSE MathRound(bandScore(rawRatio(project)))

\* the auraScore of a project
auraScore(project) ==
  IF project.amountRaised = 0
  THEN IF weightedAnnualRevenue(project) > 0 THEN Infinity ELSE 0
  ELSE MathRound(bandScore(rawRatio(project)))

\* {...project, auraScore}
calculateAuraScore(project) ==
  [auraScore |-> auraScore(project)] @@ project

\* ------------------------------------------------------------------------
\* Dashboard.calculateAuraScore
\* ------------------------------------------------------------------------

\* `project.annualizedRevenue || 0` and `project.annualizedAppFees || 0`
Dashboard_orZero(field) == IF field = <<>> THEN 0 ELSE field[1]

\* Dashboard_weightedAnnualRevenue without the test for Stablecoins
Dashboard_weightedAnnualRevenue_noStablecoins(project) ==
  LET annualizedRevenue == Dashboard_orZero(project.annualizedRevenue)
      annualizedAppFees == Dashboard_orZero(project.annualizedAppFees)
  IN  IF project.category = "Application" \/ project.category = "dApp"
      THEN annualizedRevenue * 10
      ELSE annualizedRevenue * 10 + annualizedAppFees * 7

\* the local weightedAnnualRevenue, in tenths
Dashboard_weightedAnnualRevenue(project) ==
  LET annualizedRevenue == Dashboard_orZero(project.annualizedRevenue)
      annualizedAppFees == Dashboard_orZero(project.annualizedAppFees)
  IN  IF project.category = "Application" \/ project.category = "dApp"
         \/ project.category = "Stablecoins"
      THEN annualizedRevenue * 10
      ELSE LET nativeRevenue == annualizedRevenue * 10
               ecosystemRevenue == annualizedAppFees * 7
           IN  nativeRevenue + ecosystemRevenue

\* the local rawRatio = weightedAnnualRevenue / amountRaised (amountRaised # 0)
Dashboard_rawRatio(project) ==
  <<Dashboard_weightedAnnualRevenue(project), 10 * project.amountRaised>>

\* Dashboard_bandScore with the slope 200 for 300 in the band [0.1, 1)
Dashboard_bandScore_drift(ratio) ==
  IF RatLe(ratio, 0, 1) THEN 2 * (-1000)
  ELSE IF RatLt(ratio, 1, 1000)
    THEN Affine(MathLog10(RatMul(ratio, 1000)), 200, -800)
  ELSE IF RatLt(ratio, 1, 100)
    THEN Affine(MathLog10(RatMul(ratio, 100)), 150, -200)
  ELSE IF RatLt(ratio, 1, 10)
    THEN Affine(MathLog10(RatMul(ratio, 10)), 200, 200)
  ELSE IF RatLt(ratio, 1, 1)
    THEN Affine(MathLog10(ratio), 200, 700)
  ELSE IF RatLt(ratio, 10, 1)
    THEN Affine(MathLog2(ratio), 400, 700)
  ELSE IF RatLt(ratio, 100, 1)
    THEN Affine(MathLog2(RatDiv(ratio, 10)), 600, 2000)
  ELSE Affine(MathLog2(RatDiv(ratio, 100)), 1000, 5000)

\* the band formulas: auraScore before Math.round, as floor(2 * auraScore)
Dashboard_bandScore(ratio) ==
  IF RatLe(ratio, 0, 1) THEN 2 * (-1000)
  ELSE IF RatLt(ratio, 1, 1000)
    THEN Affine(MathLog10(RatMul(ratio, 1000)), 200, -800)
  ELSE IF RatLt(ratio, 1, 100)
    THEN Affine(MathLog10(RatMul(ratio, 100)), 150, -200)
  ELSE IF RatLt(ratio, 1, 10)
    THEN Affine(MathLog10(RatMul(ratio, 10)), 200, 200)
  ELSE IF RatLt(ratio, 1, 1)
    THEN Affine(MathLog10(ratio), 300, 700)
  ELSE IF RatLt(ratio, 10, 1)
    THEN Affine(MathLog2(ratio), 400, 700)
  ELSE IF RatLt(ratio, 100, 1)
    THEN Affine(MathLog2(RatDiv(ratio, 10)), 600, 2000)
  ELSE Affine(MathLog2(RatDiv(ratio, 100)), 1000, 5000)

\* the auraScore of a project
Dashboard_auraScore(project) ==
  IF project.amountRaised = 0
  THEN IF Dashboard_weightedAnnualRevenue(project) > 0 THEN Infinity ELSE 0
  ELSE MathRound(Dashboard_bandScore(Dashboard_rawRatio(project)))

\* {...project, auraScore}
Dashboard_calculateAuraScore(project) ==
  [auraScore |-> Dashboard_auraScore(project)] @@ project

\* the locals of one calculateAuraScore call that the claims speak about
\* (rawRatio exists only on the amountRaised # 0 branch)
locals(project) ==
  [weightedAnnualRevenue |-> weightedAnnualRevenue(project),
   rawRatio |-> IF project.amountRaised = 0 THEN <<>> ELSE rawRatio(project),
   unrounded |-> IF project.amountRaised = 0 THEN <<>>
                 ELSE <<bandScore(rawRatio(project))>>]

Dashboard_locals(project) ==
  [weightedAnnualRevenue |-> Dashboard_weightedAnnualRevenue(project),
   rawRatio |-> IF project.amountRaised = 0 THEN <<>>
                ELSE Dashboard_rawRatio(project),
   unrounded |-> IF project.amountRaised = 0 THEN <<>>
                 ELSE <<Dashboard_bandScore(Dashboard_rawRatio(project))>>]

\* ------------------------------------------------------------------------
\* Ranking
\* ------------------------------------------------------------------------

\* Array.prototype.sort with a comparison function, whose result on the
\* elements at i and j is compared[i][j]: the stable sort of the array, an
\* element going before another when the result is negative and elements
\* that compare 0 keeping their order
ArraySort(array, compared) ==
  LET before(i) ==
        {j \in DOMAIN array :
           \/ compared[j][i] < 0
           \/ compared[j][i] = 0 /\ j < i}
  IN  [k \in DOMAIN array |->
         array[CHOOSE i \in DOMAIN array : Cardinality(before(i)) = k - 1]]

\* Array.prototype.slice(start, end), on 0-based indices: a negative index
\* counts from the end, and both are clamped to the array
ArraySlice(array, start, end) ==
  LET len == Len(array)
      clamp(k) == IF k < 0 THEN (IF len + k < 0 THEN 0 ELSE len + k)
                  ELSE IF k > len THEN len ELSE k
  IN  SubSeq(array, clamp(start) + 1, clamp(end))

\* compareFn with `a.auraScore - b.auraScore` for `b.auraScore - a.auraScore`
compareFn_ascending(a, b) ==
  IF a.auraScore = Infinity /\ b.auraScore = Infinity THEN 0
  ELSE IF a.auraScore = Infinity THEN -1
  ELSE IF b.auraScore = Infinity THEN 1
  ELSE a.auraScore - b.auraScore

\* InfrastructureComparison: the comparison function of the sort
compareFn(a, b) ==
  IF a.auraScore = Infinity /\ b.auraScore = Infinity THEN 0
  ELSE IF a.auraScore = Infinity THEN -1
  ELSE IF b.auraScore = Infinity THEN 1
  ELSE b.auraScore - a.auraScore

\* InfrastructureComparison.getProjectsWithAuraScores for the state `data`
\* (<<>> is null, <<body>> a body; body.projects is <<>> when absent)
\* getProjectsWithAuraScores without its sort (a variant used to test the
\* claims about the order)
getProjectsWithAuraScores_unsorted(data) ==
  IF data = <<>> \/ data[1].projects = <<>> THEN <<>>
  ELSE LET list == data[1].projects[1]
       IN  [i \in DOMAIN list |-> calculateAuraScore(list[i])]

getProjectsWithAuraScores(data) ==
  IF data = <<>> \/ data[1].projects = <<>> THEN <<>>
  ELSE LET list == data[1].projects[1]
           scored == [i \in DOMAIN list |-> calculateAuraScore(list[i])]
       IN  ArraySort(scored,
                     [i \in DOMAIN scored |-> [j \in DOMAIN scored |->
                        compareFn(scored[i], scored[j])]])

\* Dashboard_compareFn with the results of the two Infinity tests swapped
Dashboard_compareFn_noInfinity(a, b) ==
  IF a.auraScore = Infinity /\ b.auraScore = Infinity THEN 0
  ELSE IF a.auraScore = Infinity THEN 1
  ELSE IF b.auraScore = Infinity THEN -1
  ELSE b.auraScore - a.auraScore

\* Dashboard.fetchData: the comparison function of the sort
Dashboard_compareFn(a, b) ==
  IF a.auraScore = Infinity /\ b.auraScore = Infinity THEN 0
  ELSE IF a.auraScore = Infinity THEN -1
  ELSE IF b.auraScore = Infinity THEN 1
  ELSE b.auraScore - a.auraScore

\* Dashboard.fetchData: sortedProjects of comparisonData.projects
Dashboard_sortedProjects(list) ==
  LET projectsWithAura ==
        [i \in DOMAIN list |-> Dashboard_calculateAuraScore(list[i])]
  IN  ArraySort(projectsWithAura,
                [i \in DOMAIN projectsWithAura |->
                   [j \in DOMAIN projectsWithAura |->
                      Dashboard_compareFn(projectsWithAura[i],
                                          projectsWithAura[j])]])

\* Dashboard_forEachRank with `ranks[project.name] = index`, the 0-based index
RECURSIVE Dashboard_forEachRank_zeroBased(_, _, _)
Dashboard_forEachRank_zeroBased(sorted, index, ranks) ==
  IF index > Len(sorted) THEN ranks
  ELSE Dashboard_forEachRank_zeroBased(sorted, index + 1,
         [n \in DOMAIN ranks \cup {sorted[index].name} |->
            IF n = sorted[index].name THEN index - 1 ELSE ranks[n]])

\* Dashboard.fetchData: sortedProjects.forEach((project, index) =>
\* ranks[project.name] = index + 1), from position `index` on
RECURSIVE Dashboard_forEachRank(_, _, _)
Dashboard_forEachRank(sorted, index, ranks) ==
  IF index > Len(sorted) THEN ranks
  ELSE Dashboard_forEachRank(sorted, index + 1,
         [n \in DOMAIN ranks \cup {sorted[index].name} |->
            IF n = sorted[index].name THEN index ELSE ranks[n]])

\* Dashboard.fetchData: the ranks of a comparison body (<<>> when the body
\* has no projects)
Dashboard_ranks(comparisonData) ==
  IF comparisonData.projects = <<>> THEN <<>>
  ELSE Dashboard_forEachRank(
         Dashboard_sortedProjects(comparisonData.projects[1]), 1, <<>>)

\* ------------------------------------------------------------------------
\* Project inputs
\* ------------------------------------------------------------------------

Categories == {"L1", "L2", "L3", "Application", "dApp", "Stablecoins"}
Apps == {"Application", "dApp", "Stablecoins"}

RevenueValues == {0, 1, 10, 50, 99, 100}
FeeValues == {0, 100, 1000}
RaisedValues == {0, 1, 10, 500, 1000, 100000}

\* an optional field: <<>> when absent, <<v>> when present
Optional(S) == {<<>>} \cup {<<v>> : v \in S}

Project(n, c, raised, rev, fees) ==
  [name |-> n, category |-> c, amountRaised |-> raised,
   annualizedRevenue |-> rev, annualizedAppFees |-> fees]

\* every combination of category, amounts and absent fields
ProjectInputs ==
  {Project("x", c, raised, rev, fees) :
     c \in Categories, raised \in RaisedValues,
     rev \in Optional(RevenueValues), fees \in Optional(FeeValues)}

\* funded projects whose ratios cover every band, every band boundary
\* and the values next to the boundaries
RatioLadder ==
  {Project("y", "Application", raised, <<rev>>, <<>>) :
     rev \in RevenueValues, raised \in RaisedValues \ {0}}
  \cup {Project("y", "L1", 1, <<100>>, <<1000>>)}

\* ------------------------------------------------------------------------
\* State
\* ------------------------------------------------------------------------

\* null is <<>> and a non-null value v is <<v>>, for a state that may be null
\* and for an optional field

VARIABLES
  projects,         \* a batch of projects handed to the scoring code
  dashScores,       \* projects.map(Dashboard.calculateAuraScore), <<>> before
  dashLocals,       \* the locals of those calls
  infraScores,      \* projects.map(InfrastructureComparison.calculateAuraScore)
  infraLocals,      \* the locals of those calls
  timeRange,        \* Dashboard: useState('all')
  dashboardData,    \* Dashboard: useState(null)
  auraRanks,        \* Dashboard: useState({}), a function from names to ranks
  loading,          \* Dashboard: useState(true)
  error,            \* Dashboard: useState(null)
  mounted,          \* Dashboard: the effect of the first render has run
  loads,            \* Dashboard: the fetchData calls awaiting their fetches
  sortedProjects,   \* Dashboard.fetchData: the local sortedProjects of the
                    \* last call that computed it (<<>> when none did)
  icMounted,        \* InfrastructureComparison is rendered by the Dashboard
  data,             \* InfrastructureComparison: useState(null)
  icLoading,        \* InfrastructureComparison: useState(true) of loading
  icError,          \* InfrastructureComparison: useState(null) of error
  icFetch,          \* InfrastructureComparison: "pending" while its fetch is
  projectsWithAura, \* InfrastructureComparison: the render constant
                    \* projectsWithAura (<<>> when the render returns before)
  viewMode,         \* InfrastructureComparison: useState('aura')
  sortField,        \* BuilderLeaderboard: useState('totalRevenue')
  sortDirection,    \* BuilderLeaderboard: useState('desc')
  currentPage       \* BuilderLeaderboard: useState(1)

scoreVars == <<projects, dashScores, dashLocals, infraScores, infraLocals>>
dashVars == <<timeRange, dashboardData, auraRanks, loading, error, mounted,
              loads, sortedProjects>>
icVars == <<icMounted, data, icLoading, icError, icFetch, projectsWithAura,
            viewMode>>
lbVars == <<sortField, sortDirection, currentPage>>
vars == <<scoreVars, dashVars, icVars, lbVars>>

\* no scoring call has been made
ScoreIdle ==
  /\ dashScores = <<>>
  /\ dashLocals = <<>>
  /\ infraScores = <<>>
  /\ infraLocals = <<>>

\* the Dashboard after construction, before its first effect
DashboardInit ==
  /\ timeRange = "all"
  /\ dashboardData = <<>>
  /\ auraRanks = <<>>
  /\ loading = TRUE
  /\ error = <<>>
  /\ mounted = FALSE
  /\ loads = <<>>
  /\ sortedProjects = <<>>

\* no InfrastructureComparison is rendered; the values are the initial ones
\* of its states
InfraInit ==
  /\ icMounted = FALSE
  /\ data = <<>>
  /\ icLoading = TRUE
  /\ icError = <<>>
  /\ icFetch = "none"
  /\ projectsWithAura = <<>>
  /\ viewMode = "aura"

\* the BuilderLeaderboard after construction; its state is discarded when
\* the Dashboard stops rendering it
LeaderboardInit ==
  /\ sortField = "totalRevenue"
  /\ sortDirection = "desc"
  /\ currentPage = 1

\* ------------------------------------------------------------------------
\* The score as a pure function: both copies applied to a batch
\* ------------------------------------------------------------------------

ScoreInit ==
  /\ projects \in {<<p>> : p \in ProjectInputs}
                  \cup {<<p, q>> : p \in RatioLadder, q \in RatioLadder}
  /\ ScoreIdle
  /\ DashboardInit
  /\ InfraInit
  /\ LeaderboardInit

\* Dashboard: comparisonData.projects.map(calculateAuraScore)
DashboardMap ==
  /\ dashScores = <<>>
  /\ dashScores' = [i \in DOMAIN projects |->
                      Dashboard_calculateAuraScore(projects[i])]
  /\ dashLocals' = [i \in DOMAIN projects |-> Dashboard_locals(projects[i])]
  /\ UNCHANGED <<projects, infraScores, infraLocals, dashVars, icVars, lbVars>>

\* InfrastructureComparison: data.projects.map(calculateAuraScore)
InfraMap ==
  /\ infraScores = <<>>
  /\ infraScores' = [i \in DOMAIN projects |->
                       calculateAuraScore(projects[i])]
  /\ infraLocals' = [i \in DOMAIN projects |-> locals(projects[i])]
  /\ UNCHANGED <<projects, dashScores, dashLocals, dashVars, icVars, lbVars>>

ScoreNext == DashboardMap \/ InfraMap

ScoreSpec == ScoreInit /\ [][ScoreNext]_vars

\* ------------------------------------------------------------------------
\* Comparison payloads
\* ------------------------------------------------------------------------

\* the longest comparison payload of a page load
MaxProjects == 4

\* two bootstrapped projects with revenue, the L1 example and two funded
\* projects without revenue
RankPool ==
  { Project("a", "Application", 0, <<100>>, <<>>),
    Project("b", "L1", 0, <<>>, <<100>>),
    Project("c", "L1", 1000, <<100>>, <<100>>),
    Project("d", "L2", 10, <<0>>, <<>>),
    Project("e", "Stablecoins", 500, <<>>, <<1000>>) }

RECURSIVE SeqsUpTo(_, _)
SeqsUpTo(S, n) ==
  IF n = 0 THEN {<<>>}
  ELSE LET shorter == SeqsUpTo(S, n - 1)
       IN  shorter \cup {Append(q, x) : q \in shorter, x \in S}

\* ------------------------------------------------------------------------
\* Dashboard
\* ------------------------------------------------------------------------

\* Header: the values of timeRanges
TimeRanges == {"24h", "7d", "30d", "90d", "all"}

\* what the Dashboard renders for given loading, error and dashboardData;
\* the render throws at dashboardData.builders.some(...) when the data has
\* no builders, and nothing of the Dashboard is displayed any more
ViewOf(l, e, d) ==
  IF l THEN "spinner"
  ELSE IF e # <<>> \/ d = <<>> THEN "error"
  ELSE IF d[1].builders = <<>> THEN "crashed"
  ELSE "main"

View == ViewOf(loading, error, dashboardData)

\* InfraFollows with InfrastructureComparison left as it is when the main
\* view disappears
InfraFollows_keepsMounted(viewAfter) ==
  IF viewAfter = "main" /\ View # "main"
  THEN /\ icMounted' = TRUE
       /\ data' = <<>>
       /\ icLoading' = TRUE
       /\ icError' = <<>>
       /\ icFetch' = "pending"
       /\ projectsWithAura' = <<>>
       /\ viewMode' = "aura"
  ELSE UNCHANGED icVars

\* the render that follows a Dashboard state change: InfrastructureComparison
\* is mounted, with its initial state and its effect's fetch issued, when the
\* main view appears, and unmounted, its state discarded, when it disappears
InfraFollows(viewAfter) ==
  IF viewAfter = "main" /\ View # "main"
  THEN /\ icMounted' = TRUE
       /\ data' = <<>>
       /\ icLoading' = TRUE
       /\ icError' = <<>>
       /\ icFetch' = "pending"
       /\ projectsWithAura' = <<>>
       /\ viewMode' = "aura"
  ELSE IF viewAfter # "main" /\ View = "main"
  THEN /\ icMounted' = FALSE
       /\ data' = <<>>
       /\ icLoading' = TRUE
       /\ icError' = <<>>
       /\ icFetch' = "none"
       /\ projectsWithAura' = <<>>
       /\ viewMode' = "aura"
  ELSE UNCHANGED icVars

\* LeaderboardFollows with the state of BuilderLeaderboard kept across
\* unmounting (a variant used to test the claims about remounting)
LeaderboardFollows_keepsState(viewAfter) == UNCHANGED lbVars

\* the render that follows a Dashboard state change: BuilderLeaderboard
\* keeps its state while the main view stays, and has its initial state
\* when the main view appears or is gone
LeaderboardFollows(viewAfter) ==
  IF viewAfter = "main" /\ View = "main"
  THEN UNCHANGED lbVars
  ELSE /\ sortField' = "totalRevenue"
       /\ sortDirection' = "desc"
       /\ currentPage' = 1

\* a fetch: pending, rejected, resolved with a response that is not ok, with
\* an ok response whose json() rejects, or with an ok response and its body
Pending == [status |-> "pending", body |-> <<>>]
Rejected == [status |-> "rejected", body |-> <<>>]
NotOk == [status |-> "notOk", body |-> <<>>]
OkInvalid == [status |-> "okInvalid", body |-> <<>>]
Ok(json) == [status |-> "ok", body |-> json]

\* fetchData with the revenue request made without the selected time range
fetchData_allTime(range) ==
  /\ loading' = TRUE
  /\ error' = <<>>
  /\ loads' = Append(loads, [timeRange |-> "all", revenue |-> Pending,
                             comparison |-> Pending])

\* fetchData with setLoading(true) left out
fetchData_keepsLoading(range) ==
  /\ loading' = loading
  /\ error' = <<>>
  /\ loads' = Append(loads, [timeRange |-> range, revenue |-> Pending,
                             comparison |-> Pending])

\* fetchData up to `await Promise.all([fetch(revenue), fetch(comparison)])`
fetchData(range) ==
  /\ loading' = TRUE
  /\ error' = <<>>
  /\ loads' = Append(loads, [timeRange |-> range, revenue |-> Pending,
                             comparison |-> Pending])

\* the effect of the first render: fetchData()
Mount ==
  /\ ~ mounted
  /\ mounted' = TRUE
  /\ fetchData(timeRange)
  /\ InfraFollows(ViewOf(TRUE, <<>>, dashboardData))
  /\ LeaderboardFollows(ViewOf(TRUE, <<>>, dashboardData))
  /\ UNCHANGED <<scoreVars, timeRange, dashboardData, auraRanks,
                 sortedProjects>>

\* onTimeRangeChange with the Header there whatever the Dashboard renders
onTimeRangeChange_whileLoading(range) ==
  /\ mounted
  /\ range # timeRange
  /\ timeRange' = range
  /\ fetchData(range)
  /\ InfraFollows(ViewOf(TRUE, <<>>, dashboardData))
  /\ LeaderboardFollows(ViewOf(TRUE, <<>>, dashboardData))
  /\ UNCHANGED <<scoreVars, dashboardData, auraRanks, mounted, sortedProjects>>

\* Header: onClick of a time range button, onTimeRangeChange = setTimeRange,
\* and the effect on [timeRange] that follows a change
onTimeRangeChange(range) ==
  /\ mounted
  /\ View = "main"
  /\ range # timeRange
  /\ timeRange' = range
  /\ fetchData(range)
  /\ InfraFollows(ViewOf(TRUE, <<>>, dashboardData))
  /\ LeaderboardFollows(ViewOf(TRUE, <<>>, dashboardData))
  /\ UNCHANGED <<scoreVars, dashboardData, auraRanks, mounted, sortedProjects>>

\* a fetch of call i settles
RevenueFetchSettles(i, outcome) ==
  /\ i \in DOMAIN loads
  /\ loads[i].revenue = Pending
  /\ loads' = [loads EXCEPT ![i].revenue = outcome]
  /\ UNCHANGED <<scoreVars, timeRange, dashboardData, auraRanks, loading,
                 error, mounted, sortedProjects, icVars, lbVars>>

ComparisonFetchSettles(i, outcome) ==
  /\ i \in DOMAIN loads
  /\ loads[i].comparison = Pending
  /\ loads' = [loads EXCEPT ![i].comparison = outcome]
  /\ UNCHANGED <<scoreVars, timeRange, dashboardData, auraRanks, loading,
                 error, mounted, sortedProjects, icVars, lbVars>>

RemoveAt(seq, i) == SubSeq(seq, 1, i - 1) \o SubSeq(seq, i + 1, Len(seq))

\* Failed without the two `if (!response.ok) throw` checks
Failed_rejectedOnly(load) ==
  \/ load.revenue = Rejected
  \/ load.comparison = Rejected

\* Promise.all has rejected, or resolved with a response that is not ok
Failed(load) ==
  \/ load.revenue = Rejected
  \/ load.comparison = Rejected
  \/ /\ load.revenue # Pending /\ load.comparison # Pending
     /\ load.revenue = NotOk \/ load.comparison = NotOk

\* Promise.all has resolved with two ok responses
BothOk(load) ==
  /\ load.revenue.status \in {"ok", "okInvalid"}
  /\ load.comparison.status \in {"ok", "okInvalid"}

ErrorMessage == "Failed to load data. Please try again."

\* fetchData of call i from the await on: a fetch rejected or a response is
\* not ok; catch and finally
fetchDataFails(i) ==
  /\ i \in DOMAIN loads
  /\ Failed(loads[i])
  /\ error' = <<ErrorMessage>>
  /\ loading' = FALSE
  /\ loads' = RemoveAt(loads, i)
  /\ InfraFollows(ViewOf(FALSE, <<ErrorMessage>>, dashboardData))
  /\ LeaderboardFollows(ViewOf(FALSE, <<ErrorMessage>>, dashboardData))
  /\ UNCHANGED <<scoreVars, timeRange, dashboardData, auraRanks, mounted,
                 sortedProjects>>

\* fetchDataJsonFails without the finally block: loading is left alone
fetchDataJsonFails_noFinally(i) ==
  /\ i \in DOMAIN loads
  /\ BothOk(loads[i])
  /\ loads[i].revenue = OkInvalid \/ loads[i].comparison = OkInvalid
  /\ error' = <<ErrorMessage>>
  /\ loads' = RemoveAt(loads, i)
  /\ InfraFollows(ViewOf(loading, <<ErrorMessage>>, dashboardData))
  /\ LeaderboardFollows(ViewOf(loading, <<ErrorMessage>>, dashboardData))
  /\ UNCHANGED <<scoreVars, timeRange, dashboardData, auraRanks, mounted,
                 sortedProjects, loading>>

\* fetchData of call i from the await on: both responses are ok but one
\* json() rejects; catch and finally
fetchDataJsonFails(i) ==
  /\ i \in DOMAIN loads
  /\ BothOk(loads[i])
  /\ loads[i].revenue = OkInvalid \/ loads[i].comparison = OkInvalid
  /\ error' = <<ErrorMessage>>
  /\ loading' = FALSE
  /\ loads' = RemoveAt(loads, i)
  /\ InfraFollows(ViewOf(FALSE, <<ErrorMessage>>, dashboardData))
  /\ LeaderboardFollows(ViewOf(FALSE, <<ErrorMessage>>, dashboardData))
  /\ UNCHANGED <<scoreVars, timeRange, dashboardData, auraRanks, mounted,
                 sortedProjects>>

\* fetchDataCompletes with the code after the awaits run as soon as the
\* revenue body is read, the comparison body read as null while its fetch
\* is pending
fetchDataCompletes_revenueFirst(i) ==
  /\ i \in DOMAIN loads
  /\ loads[i].revenue.status = "ok"
  /\ loads[i].comparison.status \in {"ok", "pending"}
  /\ LET revenueData == loads[i].revenue.body
         comparisonData == loads[i].comparison.body
     IN  /\ dashboardData' = revenueData
         /\ IF comparisonData = <<>>
            THEN /\ error' = <<ErrorMessage>>
                 /\ UNCHANGED <<auraRanks, sortedProjects>>
            ELSE /\ auraRanks' = Dashboard_ranks(comparisonData[1])
                 /\ sortedProjects' =
                      IF comparisonData[1].projects = <<>> THEN <<>>
                      ELSE <<Dashboard_sortedProjects(
                               comparisonData[1].projects[1])>>
                 /\ UNCHANGED error
  /\ loading' = FALSE
  /\ loads' = RemoveAt(loads, i)
  /\ InfraFollows(ViewOf(FALSE, error', dashboardData'))
  /\ LeaderboardFollows(ViewOf(FALSE, error', dashboardData'))
  /\ UNCHANGED <<scoreVars, timeRange, mounted>>

\* fetchData of call i from the await on: both responses are ok and their
\* bodies are read.  setDashboardData comes first;
\* reading comparisonData.projects of a null body throws, which leaves the
\* ranks alone and sets the error
fetchDataCompletes(i) ==
  /\ i \in DOMAIN loads
  /\ loads[i].revenue.status = "ok"
  /\ loads[i].comparison.status = "ok"
  /\ LET revenueData == loads[i].revenue.body
         comparisonData == loads[i].comparison.body
     IN  /\ dashboardData' = revenueData
         /\ IF comparisonData = <<>>
            THEN /\ error' = <<ErrorMessage>>
                 /\ UNCHANGED <<auraRanks, sortedProjects>>
            ELSE /\ auraRanks' = Dashboard_ranks(comparisonData[1])
                 /\ sortedProjects' =
                      IF comparisonData[1].projects = <<>> THEN <<>>
                      ELSE <<Dashboard_sortedProjects(
                               comparisonData[1].projects[1])>>
                 /\ UNCHANGED error
  /\ loading' = FALSE
  /\ loads' = RemoveAt(loads, i)
  /\ InfraFollows(ViewOf(FALSE, error', dashboardData'))
  /\ LeaderboardFollows(ViewOf(FALSE, error', dashboardData'))
  /\ UNCHANGED <<scoreVars, timeRange, mounted>>

\* Retry with the selected time range kept over the reload
Retry_keepsTimeRange ==
  /\ mounted
  /\ View = "error"
  /\ dashboardData' = <<>>
  /\ auraRanks' = <<>>
  /\ loading' = TRUE
  /\ error' = <<>>
  /\ mounted' = FALSE
  /\ loads' = <<>>
  /\ sortedProjects' = <<>>
  /\ InfraFollows("spinner")
  /\ LeaderboardFollows("spinner")
  /\ UNCHANGED <<scoreVars, timeRange>>

\* the Retry button of the error view: window.location.reload()
Retry ==
  /\ mounted
  /\ View = "error"
  /\ timeRange' = "all"
  /\ dashboardData' = <<>>
  /\ auraRanks' = <<>>
  /\ loading' = TRUE
  /\ error' = <<>>
  /\ mounted' = FALSE
  /\ loads' = <<>>
  /\ sortedProjects' = <<>>
  /\ InfraFollows("spinner")
  /\ LeaderboardFollows("spinner")
  /\ UNCHANGED scoreVars

\* ------------------------------------------------------------------------
\* InfrastructureComparison
\* ------------------------------------------------------------------------

\* the render of InfrastructureComparison for given loading, error and data:
\* projectsWithAura when the render gets to it
InfraRender(l, e, d) ==
  IF l \/ e # <<>> \/ d = <<>> \/ d[1].projects = <<>> THEN <<>>
  ELSE <<getProjectsWithAuraScores(d)>>

\* fetchData: the response is ok and its body is result
InfraFetchCompletes(result) ==
  /\ icMounted
  /\ icFetch = "pending"
  /\ data' = result
  /\ icLoading' = FALSE
  /\ icFetch' = "none"
  /\ projectsWithAura' = InfraRender(FALSE, icError, result)
  /\ UNCHANGED <<scoreVars, dashVars, lbVars, icMounted, icError, viewMode>>

\* fetchData: the fetch rejects, the response is not ok or json() rejects
InfraFetchFails(message) ==
  /\ icMounted
  /\ icFetch = "pending"
  /\ icError' = <<message>>
  /\ icLoading' = FALSE
  /\ icFetch' = "none"
  /\ projectsWithAura' = <<>>
  /\ UNCHANGED <<scoreVars, dashVars, lbVars, icMounted, data, viewMode>>

\* the Overview and Detailed View buttons of the full render
ViewModes == {"aura", "detailed"}

setViewMode(mode) ==
  /\ icMounted
  /\ projectsWithAura # <<>>
  /\ viewMode' = mode
  /\ UNCHANGED <<scoreVars, dashVars, lbVars, icMounted, data, icLoading,
                 icError, icFetch, projectsWithAura>>

\* renderAuraView: the projects after the top 3
topThree(ranked) == ArraySlice(ranked, 0, 3)
remaining(ranked) == ArraySlice(ranked, 3, Len(ranked))

\* Math.max(1, Math.floor(totalRemaining * 0.2))
topTierSize(totalRemaining) ==
  IF totalRemaining \div 5 > 1 THEN totalRemaining \div 5 ELSE 1
cursedTierSize(totalRemaining) ==
  IF totalRemaining \div 5 > 1 THEN totalRemaining \div 5 ELSE 1
midTierSize(totalRemaining) ==
  totalRemaining - topTierSize(totalRemaining)
    - cursedTierSize(totalRemaining)

\* renderAuraView: the three slices of remaining
topTier(ranked) ==
  ArraySlice(remaining(ranked), 0, topTierSize(Len(remaining(ranked))))
midTier(ranked) ==
  LET totalRemaining == Len(remaining(ranked))
  IN  ArraySlice(remaining(ranked), topTierSize(totalRemaining),
                 topTierSize(totalRemaining) + midTierSize(totalRemaining))
cursedTier(ranked) ==
  LET totalRemaining == Len(remaining(ranked))
  IN  ArraySlice(remaining(ranked),
                 topTierSize(totalRemaining) + midTierSize(totalRemaining),
                 totalRemaining)

\* renderAuraView: the position label of the row at the 0-based index of
\* topTier.map, midTier.map and cursedTier.map
topTierPosition(ranked, index) == index + 4
midTierPosition(ranked, index) == index + 4 + Len(topTier(ranked))
cursedTierPosition(ranked, index) ==
  index + 4 + Len(topTier(ranked)) + Len(midTier(ranked))

\* the rows of the three tier sections, in the order rendered: the project
\* and its position label
tierRows(ranked) ==
  [k \in DOMAIN topTier(ranked) |->
     [project |-> topTier(ranked)[k],
      position |-> topTierPosition(ranked, k - 1)]]
  \o [k \in DOMAIN midTier(ranked) |->
        [project |-> midTier(ranked)[k],
         position |-> midTierPosition(ranked, k - 1)]]
  \o [k \in DOMAIN cursedTier(ranked) |->
        [project |-> cursedTier(ranked)[k],
         position |-> cursedTierPosition(ranked, k - 1)]]

\* renderDetailedView: the rank shown for the row at the 0-based index of
\* projectsWithAura.map
detailedRank(index) == index + 1
DetailedViewShown ==
  icMounted /\ projectsWithAura # <<>> /\ viewMode = "detailed"

\* renderAuraView is what the full render shows
AuraViewShown == icMounted /\ projectsWithAura # <<>> /\ viewMode = "aura"

\* ------------------------------------------------------------------------
\* BuilderLeaderboard
\* ------------------------------------------------------------------------

\* a builder is [builderCode, builderName, totalRevenue]; an empty or absent
\* builderName is <<>>

SortFields == {"rank", "builderName", "totalRevenue", "auraRank"}
SortDirections == {"asc", "desc"}

\* the fields whose column header calls handleSort
HeaderFields == {"builderName", "totalRevenue", "auraRank"}

itemsPerPage == 10

\* the builder codes of the runs
BuilderCodes ==
  << "B01", "B02", "B03", "B04", "B05", "B06", "B07", "B08", "B09", "B10",
     "B11", "B12", "B13", "B14", "B15", "B16", "B17", "B18", "B19", "B20",
     "B21", "B22", "B23", "B24", "B25", "B26", "B27", "B28", "B29", "B30" >>

Builder(code, name, revenue) ==
  [builderCode |-> code, builderName |-> name, totalRevenue |-> revenue]

\* a roster of n builders without names, in no order of revenue
Roster(n) ==
  [k \in 1..n |-> Builder(BuilderCodes[k], <<>>, ((7 * k) % 10) * 100)]

\* the strings of the runs in the order of String.prototype.localeCompare
Collation == <<"a", "b">> \o BuilderCodes \o <<"c", "d", "e">>

\* String.prototype.localeCompare: negative, 0 or positive
localeCompare(x, y) ==
  LET at(z) == CHOOSE k \in DOMAIN Collation : Collation[k] = z
  IN  IF at(x) < at(y) THEN -1 ELSE IF at(x) > at(y) THEN 1 ELSE 0

\* builder.builderName || builder.builderCode
displayName(builder) ==
  IF builder.builderName = <<>> THEN builder.builderCode
  ELSE builder.builderName[1]

\* auraRanks[builder.builderName || builder.builderCode] || 999
auraRankOrDefault(ranks, builder) ==
  IF displayName(builder) \in DOMAIN ranks /\ ranks[displayName(builder)] # 0
  THEN ranks[displayName(builder)]
  ELSE 999

\* Leaderboard_compareFn with sortDirection for effectiveDirection
Leaderboard_compareFn_noFlip(a, b, field, direction, ranks) ==
  IF field = "rank"
  THEN IF direction = "asc"
       THEN a.totalRevenue - b.totalRevenue
       ELSE b.totalRevenue - a.totalRevenue
  ELSE IF field = "builderName"
  THEN IF direction = "asc"
       THEN localeCompare(displayName(a), displayName(b))
       ELSE localeCompare(displayName(b), displayName(a))
  ELSE LET aValue == IF field = "auraRank" THEN auraRankOrDefault(ranks, a)
                     ELSE a.totalRevenue
           bValue == IF field = "auraRank" THEN auraRankOrDefault(ranks, b)
                     ELSE b.totalRevenue
       IN  IF direction = "asc" THEN aValue - bValue ELSE bValue - aValue

\* the comparison function of sortedBuilders
Leaderboard_compareFn(a, b, field, direction, ranks) ==
  IF field = "rank"
  THEN LET effectiveDirection == IF direction = "asc" THEN "desc" ELSE "asc"
       IN  IF effectiveDirection = "asc"
           THEN a.totalRevenue - b.totalRevenue
           ELSE b.totalRevenue - a.totalRevenue
  ELSE IF field = "builderName"
  THEN IF direction = "asc"
       THEN localeCompare(displayName(a), displayName(b))
       ELSE localeCompare(displayName(b), displayName(a))
  ELSE LET aValue == IF field = "auraRank" THEN auraRankOrDefault(ranks, a)
                     ELSE a.totalRevenue
           bValue == IF field = "auraRank" THEN auraRankOrDefault(ranks, b)
                     ELSE b.totalRevenue
       IN  IF direction = "asc" THEN aValue - bValue ELSE bValue - aValue

\* sortedBuilders with the comparison of 'asc' whatever the direction is
sortedBuilders_ignoringDirection(builders, ranks, field, direction) ==
  ArraySort(builders,
            [i \in DOMAIN builders |-> [j \in DOMAIN builders |->
               Leaderboard_compareFn(builders[i], builders[j], field,
                                     "asc", ranks)]])

\* [...builders].sort(...)
sortedBuilders(builders, ranks, field, direction) ==
  ArraySort(builders,
            [i \in DOMAIN builders |-> [j \in DOMAIN builders |->
               Leaderboard_compareFn(builders[i], builders[j], field,
                                     direction, ranks)]])

\* totalPages with Math.floor for Math.ceil
totalPages_floor(builders) == Len(builders) \div itemsPerPage

\* Math.ceil(sortedBuilders.length / itemsPerPage)
totalPages(builders) == (Len(builders) + itemsPerPage - 1) \div itemsPerPage

\* sortedBuilders.slice((currentPage - 1) * itemsPerPage,
\*                      currentPage * itemsPerPage)
paginatedBuilders(sorted, page) ==
  ArraySlice(sorted, (page - 1) * itemsPerPage, page * itemsPerPage)

\* the rank of the row at `index` (from 0) of the page
rowRank(page, index) == (page - 1) * itemsPerPage + index + 1

\* the Previous and Next buttons: absent unless totalPages > 1
PreviousButton(builders, page) ==
  IF totalPages(builders) > 1
  THEN (IF page = 1 THEN "disabled" ELSE "enabled")
  ELSE "absent"

NextButton(builders, page) ==
  IF totalPages(builders) > 1
  THEN (IF page = totalPages(builders) THEN "disabled" ELSE "enabled")
  ELSE "absent"

\* the props of the BuilderLeaderboard the Dashboard renders in its main
\* view
LeaderboardShown == mounted /\ View = "main"
builders == dashboardData[1].builders[1]

\* the render constants of the BuilderLeaderboard
SortedNow == sortedBuilders(builders, auraRanks, sortField, sortDirection)
PageNow == paginatedBuilders(SortedNow, currentPage)

\* handleSort with setSortDirection('desc') left out
handleSort_keepsDirection(field) ==
  /\ LeaderboardShown
  /\ IF sortField = field
     THEN /\ sortDirection' = IF sortDirection = "asc" THEN "desc" ELSE "asc"
          /\ UNCHANGED sortField
     ELSE /\ sortField' = field
          /\ UNCHANGED sortDirection
  /\ currentPage' = 1
  /\ UNCHANGED <<scoreVars, dashVars, icVars>>

\* handleSort with setCurrentPage(1) left out
handleSort_keepsPage(field) ==
  /\ LeaderboardShown
  /\ IF sortField = field
     THEN /\ sortDirection' = IF sortDirection = "asc" THEN "desc" ELSE "asc"
          /\ UNCHANGED sortField
     ELSE /\ sortField' = field
          /\ sortDirection' = "desc"
  /\ UNCHANGED <<scoreVars, dashVars, icVars, currentPage>>

\* handleSort(field)
handleSort(field) ==
  /\ LeaderboardShown
  /\ IF sortField = field
     THEN /\ sortDirection' = IF sortDirection = "asc" THEN "desc" ELSE "asc"
          /\ UNCHANGED sortField
     ELSE /\ sortField' = field
          /\ sortDirection' = "desc"
  /\ currentPage' = 1
  /\ UNCHANGED <<scoreVars, dashVars, icVars>>

\* Math.max(1, currentPage - 1)
previousPage(page) == IF page - 1 > 1 THEN page - 1 ELSE 1

\* Math.min(totalPages, currentPage + 1), and the same without Math.min (a
\* variant used to test the claims about the page)
nextPage_unclamped(list, page) == page + 1
nextPage(list, page) ==
  IF totalPages(list) < page + 1 THEN totalPages(list) ELSE page + 1

\* onClick of the Previous button
PreviousClick ==
  /\ LeaderboardShown
  /\ PreviousButton(builders, currentPage) = "enabled"
  /\ currentPage' = previousPage(currentPage)
  /\ UNCHANGED <<scoreVars, dashVars, icVars, sortField, sortDirection>>

\* onClick of the Next button
NextClick ==
  /\ LeaderboardShown
  /\ NextButton(builders, currentPage) = "enabled"
  /\ currentPage' = nextPage(builders, currentPage)
  /\ UNCHANGED <<scoreVars, dashVars, icVars, sortField, sortDirection>>

\* ------------------------------------------------------------------------
\* The responses
\* ------------------------------------------------------------------------


\* the builders of the revenue bodies: two builders, and a roster that
\* fills more than one page of the leaderboard
BodyBuilders ==
  { << Builder("B01", <<"a">>, 100), Builder("B02", <<"c">>, 300) >>,
    Roster(itemsPerPage + 1) }

\* the bodies of /api/builders/revenue?timeRange=range: null, an object
\* without builders, an object with builders
RevenueBodies(range) ==
  { <<>>,
    <<[timeRange |-> range, builders |-> <<>>]>> }
  \cup {<<[timeRange |-> range, builders |-> <<list>>]>> :
          list \in BodyBuilders}

\* the bodies of /api/comparison: null, an object without projects, an
\* object with the projects of a list
ComparisonBody(list) == <<[projects |-> <<list>>]>>

\* the longest comparison payload of the dashboard runs
MaxBodyProjects == 2

BodyPool ==
  { Project("a", "Application", 0, <<100>>, <<>>),
    Project("c", "L1", 1000, <<100>>, <<100>>) }

ComparisonBodies ==
  { <<>>, <<[projects |-> <<>>]>> }
  \cup {ComparisonBody(list) : list \in SeqsUpTo(BodyPool, MaxBodyProjects)}

\* the ways a fetch of a Dashboard load can settle
RevenueOutcomes(range) ==
  {Rejected, NotOk, OkInvalid} \cup {Ok(json) : json \in RevenueBodies(range)}
ComparisonOutcomes ==
  {Rejected, NotOk, OkInvalid} \cup {Ok(json) : json \in ComparisonBodies}

InfraBodies ==
  { <<>>, <<[projects |-> <<>>]>>,
    ComparisonBody(<<Project("c", "L1", 1000, <<100>>, <<100>>),
                     Project("a", "Application", 0, <<100>>, <<>>)>>) }

InfraMessages == {"HTTP error! status: 500", "Failed to fetch"}

\* ------------------------------------------------------------------------
\* The dashboard against arbitrary responses
\* ------------------------------------------------------------------------

DashInit ==
  /\ projects = <<>>
  /\ ScoreIdle
  /\ DashboardInit
  /\ InfraInit
  /\ LeaderboardInit

DashNext ==
  \/ Mount
  \/ \E range \in TimeRanges : onTimeRangeChange(range)
  \/ \E i \in DOMAIN loads :
       \E outcome \in RevenueOutcomes(loads[i].timeRange) :
         RevenueFetchSettles(i, outcome)
  \/ \E i \in DOMAIN loads, outcome \in ComparisonOutcomes :
       ComparisonFetchSettles(i, outcome)
  \/ \E i \in DOMAIN loads : fetchDataFails(i)
  \/ \E i \in DOMAIN loads : fetchDataJsonFails(i)
  \/ \E i \in DOMAIN loads : fetchDataCompletes(i)
  \/ Retry
  \/ \E result \in InfraBodies : InfraFetchCompletes(result)
  \/ \E message \in InfraMessages : InfraFetchFails(message)
  \/ \E mode \in ViewModes : setViewMode(mode)
  \/ \E field \in HeaderFields : handleSort(field)
  \/ PreviousClick
  \/ NextClick

DashSpec == DashInit /\ [][DashNext]_vars

\* the scheduling of the dashboard: the effect of the first render runs,
\* every fetch issued settles, and the code after an await runs once what it
\* awaits has settled.  Clicks are not scheduled: the user may never click.
\* The condition on fetchDataCompletes is WF_vars of it with ENABLED written
\* as the guard of the action (a step of it always changes loads).
fetchDataCompletesEnabled ==
  \E i \in DOMAIN loads :
    loads[i].revenue.status = "ok" /\ loads[i].comparison.status = "ok"

DashFairness ==
  /\ WF_vars(Mount)
  /\ WF_vars(\E i \in DOMAIN loads :
               \E outcome \in RevenueOutcomes(loads[i].timeRange) :
                 RevenueFetchSettles(i, outcome))
  /\ WF_vars(\E i \in DOMAIN loads, outcome \in ComparisonOutcomes :
               ComparisonFetchSettles(i, outcome))
  /\ WF_vars(\E i \in DOMAIN loads : fetchDataFails(i))
  /\ WF_vars(\E i \in DOMAIN loads : fetchDataJsonFails(i))
  /\ \/ []<>(~ fetchDataCompletesEnabled)
     \/ []<><<\E i \in DOMAIN loads : fetchDataCompletes(i)>>_vars
  /\ WF_vars(\/ \E result \in InfraBodies : InfraFetchCompletes(result)
             \/ \E message \in InfraMessages : InfraFetchFails(message))

DashLiveSpec == DashInit /\ [][DashNext]_vars /\ DashFairness

\* ------------------------------------------------------------------------
\* One page load against a server whose comparison payload is `projects`
\* ------------------------------------------------------------------------

RankInit ==
  /\ projects \in SeqsUpTo(RankPool, MaxProjects)
  /\ ScoreIdle
  /\ DashboardInit
  /\ InfraInit
  /\ LeaderboardInit

RankNext ==
  \/ Mount
  \/ \E i \in DOMAIN loads :
       RevenueFetchSettles(i,
         Ok(<<[timeRange |-> loads[i].timeRange,
               builders |-> <<Roster(2)>>]>>))
  \/ \E i \in DOMAIN loads :
       ComparisonFetchSettles(i, Ok(ComparisonBody(projects)))
  \/ \E i \in DOMAIN loads : fetchDataCompletes(i)
  \/ InfraFetchCompletes(ComparisonBody(projects))
  \/ \E mode \in ViewModes : setViewMode(mode)

RankSpec == RankInit /\ [][RankNext]_vars

\* ------------------------------------------------------------------------
\* The leaderboard of a loaded dashboard
\* ------------------------------------------------------------------------

\* builders with a shared name, a shared revenue and an absent name
BuilderPool ==
  { Builder("B01", <<"a">>, 300), Builder("B02", <<"c">>, 100),
    Builder("B03", <<"a">>, 200), Builder("B04", <<>>, 100) }

\* the longest list drawn from BuilderPool
MaxListed == 3

\* the longest roster
MaxBuilders == 25

\* the builders of a revenue body: the builder codes are distinct
BuilderLists ==
  { list \in SeqsUpTo(BuilderPool, MaxListed) :
      \A i, j \in DOMAIN list :
        list[i].builderCode = list[j].builderCode => i = j }
  \cup {Roster(n) : n \in 0..MaxBuilders}

\* the projects of the comparison body of the load
LeaderComparisons ==
  { <<>>,
    << Project("c", "L1", 1000, <<100>>, <<100>>),
       Project("a", "Application", 0, <<100>>, <<>>) >> }

\* the state after the first load has completed with a revenue body with
\* builders and a comparison body with projects: the main view with
\* InfrastructureComparison and BuilderLeaderboard just mounted
LeaderInit ==
  /\ projects = <<>>
  /\ ScoreIdle
  /\ timeRange = "all"
  /\ mounted = TRUE
  /\ loading = FALSE
  /\ error = <<>>
  /\ loads = <<>>
  /\ \E list \in BuilderLists, comparison \in LeaderComparisons :
       /\ dashboardData = <<[timeRange |-> "all", builders |-> <<list>>]>>
       /\ auraRanks = Dashboard_ranks([projects |-> <<comparison>>])
       /\ sortedProjects = <<Dashboard_sortedProjects(comparison)>>
  /\ icMounted = TRUE
  /\ data = <<>>
  /\ icLoading = TRUE
  /\ icError = <<>>
  /\ icFetch = "pending"
  /\ projectsWithAura = <<>>
  /\ viewMode = "aura"
  /\ LeaderboardInit

\* the clicks the table offers
LeaderNext ==
  \/ \E field \in HeaderFields : handleSort(field)
  \/ PreviousClick
  \/ NextClick

LeaderSpec == LeaderInit /\ [][LeaderNext]_vars

\* handleSort over the whole of its parameter type SortField
SortNext ==
  \/ \E field \in SortFields : handleSort(field)
  \/ PreviousClick
  \/ NextClick

SortSpec == LeaderInit /\ [][SortNext]_vars

\* ------------------------------------------------------------------------
\* The scoring contract of the specification (sections 4.1 and 8)
\* ------------------------------------------------------------------------

\* step 1 of the contract: the weighted revenue, in tenths
SpecWeightedRevenue(p) ==
  LET rev == IF p.annualizedRevenue = <<>> THEN 0 ELSE p.annualizedRevenue[1]
      fees == IF p.annualizedAppFees = <<>> THEN 0 ELSE p.annualizedAppFees[1]
  IN  IF p.category \in Apps THEN 10 * rev ELSE 10 * rev + 7 * fees

\* ratio = weightedRevenue / amountRaised, for amountRaised > 0
SpecRatio(p) == <<SpecWeightedRevenue(p), 10 * p.amountRaised>>

\* the rows of the scoring table: <<lower bound, upper bound>> of the ratio
\* as <<numerator, denominator>>, base of the logarithm, factor inside the
\* logarithm, slope, offset, <<lower, upper>> end of the stated output range
TableRows ==
  << [from |-> <<0, 1>>, to |-> <<1, 1000>>, base |-> 10, inner |-> <<1000, 1>>,
      slope |-> 200, offset |-> -800, range |-> <<-800, -200>>],
     [from |-> <<1, 1000>>, to |-> <<1, 100>>, base |-> 10, inner |-> <<100, 1>>,
      slope |-> 150, offset |-> -200, range |-> <<-200, 100>>],
     [from |-> <<1, 100>>, to |-> <<1, 10>>, base |-> 10, inner |-> <<10, 1>>,
      slope |-> 200, offset |-> 200, range |-> <<0, 400>>],
     [from |-> <<1, 10>>, to |-> <<1, 1>>, base |-> 10, inner |-> <<1, 1>>,
      slope |-> 300, offset |-> 700, range |-> <<400, 700>>],
     [from |-> <<1, 1>>, to |-> <<10, 1>>, base |-> 2, inner |-> <<1, 1>>,
      slope |-> 400, offset |-> 700, range |-> <<700, 2000>>],
     [from |-> <<10, 1>>, to |-> <<100, 1>>, base |-> 2, inner |-> <<1, 10>>,
      slope |-> 600, offset |-> 2000, range |-> <<2000, 5000>>],
     [from |-> <<100, 1>>, to |-> <<1, 0>>, base |-> 2,
      inner |-> <<1, 100>>,
      slope |-> 1000, offset |-> 5000, range |-> <<5000, Infinity>>] >>

\* the row whose band contains a ratio > 0: from <= ratio < to, except that
\* the first band excludes its lower end 0
RowOf(ratio) ==
  CHOOSE k \in DOMAIN TableRows :
    /\ RatLeq(TableRows[k].from, ratio)
    /\ ~ RatLeq(TableRows[k].to, ratio)

\* floor(2 * value) of the formula of row k at a ratio
RowFormula(k, ratio) ==
  LET row == TableRows[k]
      arg == <<ratio[1] * row.inner[1], ratio[2] * row.inner[2]>>
  IN  Affine(Log(arg, row.base), row.slope, row.offset)

\* the score the table assigns to a ratio
TableScore(ratio) ==
  IF ratio[1] <= 0 THEN -1000
  ELSE MathRound(RowFormula(RowOf(ratio), ratio))

Funded(p) == p.amountRaised > 0

\* both copies have been applied to the batch
DashDone == dashScores # <<>>
InfraDone == infraScores # <<>>

\* C1 (as claimed): for amountRaised > 0 the score is non-decreasing in the
\* ratio, within a band and across bands: r1 <= r2 implies
\* score(r1) <= score(r2).
C1_MonotoneInRatio ==
  /\ InfraDone =>
       \A i, j \in DOMAIN projects :
         (Funded(projects[i]) /\ Funded(projects[j])
          /\ RatLeq(infraLocals[i].rawRatio, infraLocals[j].rawRatio))
         => infraScores[i].auraScore <= infraScores[j].auraScore
  /\ DashDone =>
       \A i, j \in DOMAIN projects :
         (Funded(projects[i]) /\ Funded(projects[j])
          /\ RatLeq(dashLocals[i].rawRatio, dashLocals[j].rawRatio))
         => dashScores[i].auraScore <= dashScores[j].auraScore

\* the value of the band formula lies in the output range stated for its band
InStatedRange(ratio, unrounded) ==
  LET range == TableRows[RowOf(ratio)].range
  IN  2 * range[1] <= unrounded /\ unrounded < 2 * range[2]

\* C2 (as claimed): for a ratio inside a band, the value of the band's
\* formula lies within the band's stated output range.
C2_FormulaWithinStatedRange ==
  /\ InfraDone =>
       \A i \in DOMAIN projects :
         (Funded(projects[i]) /\ infraLocals[i].rawRatio[1] > 0)
         => InStatedRange(infraLocals[i].rawRatio, infraLocals[i].unrounded[1])
  /\ DashDone =>
       \A i \in DOMAIN projects :
         (Funded(projects[i]) /\ dashLocals[i].rawRatio[1] > 0)
         => InStatedRange(dashLocals[i].rawRatio, dashLocals[i].unrounded[1])

\* the boundary example of section 8: ratio 50 / 500 = 0.1
BoundaryExample == Project("x", "Application", 500, <<50>>, <<1000>>)

\* C3: for amountRaised > 0 the score is the rounding to the nearest integer
\* of the formula of the band containing ratio = weightedRevenue /
\* amountRaised; ratio <= 0 gives -1000; a boundary ratio is scored by the
\* band starting at it; the boundary example is scored by the [0.1, 1)
\* formula and not by the [0.01, 0.1) one.
C3_ScoreIsRoundedBandFormula ==
  /\ InfraDone =>
       \A i \in DOMAIN projects :
         /\ Funded(projects[i]) =>
              infraScores[i].auraScore = TableScore(SpecRatio(projects[i]))
         /\ projects[i] = BoundaryExample =>
              /\ RatEq(infraLocals[i].rawRatio, <<1, 10>>)
              /\ infraLocals[i].unrounded[1] = RowFormula(4, <<1, 10>>)
              /\ infraLocals[i].unrounded[1] # RowFormula(3, <<1, 10>>)
  /\ DashDone =>
       \A i \in DOMAIN projects :
         /\ Funded(projects[i]) =>
              dashScores[i].auraScore = TableScore(SpecRatio(projects[i]))
         /\ projects[i] = BoundaryExample =>
              /\ RatEq(dashLocals[i].rawRatio, <<1, 10>>)
              /\ dashLocals[i].unrounded[1] = RowFormula(4, <<1, 10>>)
              /\ dashLocals[i].unrounded[1] # RowFormula(3, <<1, 10>>)

\* the boundary example has been scored by both copies, with score 400
C3_Witness ==
  /\ InfraDone /\ DashDone
  /\ projects[1] = BoundaryExample
  /\ infraScores[1].auraScore = 400
  /\ dashScores[1].auraScore = 400

\* the L1 example of section 8
L1Example == Project("x", "L1", 1000, <<100>>, <<100>>)

\* C4 (as claimed): the L1 example has weighted revenue 170, ratio 0.17 and
\* score 525.
C4_L1ExampleScores525 ==
  InfraDone =>
    \A i \in DOMAIN projects :
      projects[i] = L1Example =>
        /\ infraLocals[i].weightedAnnualRevenue = 1700
        /\ RatEq(infraLocals[i].rawRatio, <<17, 100>>)
        /\ infraScores[i].auraScore = 525

\* C4 (amended): the L1 example has weighted revenue 170, ratio 0.17 and
\* score 469 = round(log10(0.17) * 300 + 700) = round(469.13...).
C4_L1ExampleScores469 ==
  InfraDone =>
    \A i \in DOMAIN projects :
      projects[i] = L1Example =>
        /\ infraLocals[i].weightedAnnualRevenue = 1700
        /\ RatEq(infraLocals[i].rawRatio, <<17, 100>>)
        /\ infraScores[i].auraScore = 469

\* the L1 example has been scored
C4_Witness ==
  /\ InfraDone
  /\ projects[1] = L1Example
  /\ infraScores[1].auraScore = 469

\* C5: the weighted revenue is annualizedRevenue alone for Application, dApp
\* and Stablecoins and annualizedRevenue + 0.7 * annualizedAppFees for every
\* other category; an absent amount counts as 0.
C5_WeightedRevenue ==
  /\ InfraDone =>
       \A i \in DOMAIN projects :
         infraLocals[i].weightedAnnualRevenue = SpecWeightedRevenue(projects[i])
  /\ DashDone =>
       \A i \in DOMAIN projects :
         dashLocals[i].weightedAnnualRevenue = SpecWeightedRevenue(projects[i])

\* a Stablecoins project whose fees are ignored and an L2 project with an
\* absent revenue whose fees are weighted by 0.7 have been scored
C5_Witness ==
  /\ InfraDone /\ DashDone
  /\ \/ /\ projects[1].category = "Stablecoins"
        /\ projects[1].annualizedRevenue = <<50>>
        /\ projects[1].annualizedAppFees = <<1000>>
        /\ infraLocals[1].weightedAnnualRevenue = 500
     \/ /\ projects[1].category = "L2"
        /\ projects[1].annualizedRevenue = <<>>
        /\ projects[1].annualizedAppFees = <<100>>
        /\ dashLocals[1].weightedAnnualRevenue = 700

\* C6: with amountRaised = 0 the score is Infinity when the weighted revenue
\* is > 0 and exactly 0 otherwise, and no band formula is evaluated.
C6_Bootstrapped ==
  /\ InfraDone =>
       \A i \in DOMAIN projects :
         projects[i].amountRaised = 0 =>
           /\ infraScores[i].auraScore =
                IF SpecWeightedRevenue(projects[i]) > 0 THEN Infinity ELSE 0
           /\ infraLocals[i].unrounded = <<>>
  /\ DashDone =>
       \A i \in DOMAIN projects :
         projects[i].amountRaised = 0 =>
           /\ dashScores[i].auraScore =
                IF SpecWeightedRevenue(projects[i]) > 0 THEN Infinity ELSE 0
           /\ dashLocals[i].unrounded = <<>>

\* a bootstrapped project with revenue 100 has been scored Infinity
C6_Witness ==
  /\ InfraDone /\ DashDone
  /\ projects[1].amountRaised = 0
  /\ projects[1].annualizedRevenue = <<100>>
  /\ infraScores[1].auraScore = Infinity
  /\ dashScores[1].auraScore = Infinity

\* C7: both copies return the same auraScore (and the same record) for
\* every project.
C7_CopiesAgree ==
  (InfraDone /\ DashDone) =>
    \A i \in DOMAIN projects :
      /\ dashScores[i].auraScore = infraScores[i].auraScore
      /\ dashScores[i] = infraScores[i]

\* both copies have scored a funded L3 project with fees and an absent
\* revenue
C7_Witness ==
  /\ InfraDone /\ DashDone
  /\ projects[1].category = "L3"
  /\ projects[1].annualizedRevenue = <<>>
  /\ projects[1].annualizedAppFees = <<1000>>
  /\ projects[1].amountRaised = 10
  /\ dashScores[1].auraScore = infraScores[1].auraScore

\* ------------------------------------------------------------------------
\* The ranking contract of the specification (sections 3 and 4.1)
\* ------------------------------------------------------------------------

Names(seq) == [k \in DOMAIN seq |-> seq[k].name]

\* the entries of a sequence with a given score, in their order
WithScore(seq, v) ==
  LET Test(e) == e.auraScore = v
  IN  SelectSeq(seq, Test)

\* the score a ranked sequence gives to the project of a name
ScoreOfName(ranked, n) ==
  (CHOOSE e \in {ranked[k] : k \in DOMAIN ranked} : e.name = n).auraScore

\* the projects of the fetched list whose score in the ranked sequence is v,
\* in their fetched order
FetchedWithScore(fetched, ranked, v) ==
  LET Test(p) == ScoreOfName(ranked, p.name) = v
  IN  SelectSeq(fetched, Test)

\* the entries of score v are in the order of the fetched list
KeepsFetchedOrder(fetched, ranked, v) ==
  Names(WithScore(ranked, v)) = Names(FetchedWithScore(fetched, ranked, v))

\* a ranked sequence is sorted by score descending, Infinity first and in
\* fetched order
SortedDescending(fetched, ranked) ==
  /\ Len(ranked) = Len(fetched)
  /\ \A i, j \in DOMAIN ranked :
       (ranked[i].auraScore = Infinity /\ ranked[j].auraScore # Infinity)
       => i < j
  /\ \A i, j \in DOMAIN ranked :
       (i < j /\ ranked[i].auraScore # Infinity)
       => ranked[i].auraScore >= ranked[j].auraScore
  /\ KeepsFetchedOrder(fetched, ranked, Infinity)

\* C8: the ranked sequence is sorted by score descending: every project of
\* score Infinity precedes every project of finite score, the finite scores
\* are in non-increasing order, and the projects of score Infinity keep their
\* order of the fetched list.
C8_RankedSequenceSorted ==
  /\ sortedProjects # <<>> => SortedDescending(projects, sortedProjects[1])
  /\ projectsWithAura # <<>> => SortedDescending(projects, projectsWithAura[1])

\* the payload c, b, a has been ranked b, a, c by both components
C8_Witness ==
  /\ Names(projects) = <<"c", "b", "a">>
  /\ sortedProjects # <<>>
  /\ projectsWithAura # <<>>
  /\ Names(sortedProjects[1]) = <<"b", "a", "c">>
  /\ Names(projectsWithAura[1]) = <<"b", "a", "c">>
  /\ sortedProjects[1][1].auraScore = Infinity
  /\ sortedProjects[1][3].auraScore = 469

UniqueNames(list) ==
  \A i, j \in DOMAIN list : list[i].name = list[j].name => i = j

\* ranks maps the names of the payload to their positions in the sorted
\* sequence
RanksOfPayload(list, ranks, sorted) ==
  /\ DOMAIN ranks = {list[k].name : k \in DOMAIN list}
  /\ \A n \in DOMAIN ranks :
       /\ ranks[n] \in 1 .. Len(list)
       /\ sorted[ranks[n]].name = n
  /\ UniqueNames(list) =>
       /\ {ranks[n] : n \in DOMAIN ranks} = 1 .. Len(list)
       /\ Cardinality(DOMAIN ranks) = Len(list)

\* C9: after a successful Dashboard load, auraRanks maps each project name
\* of the comparison payload to its 1-indexed position in the sorted
\* sequence; with unique names the ranks are exactly 1..n, one per name; no
\* name of an earlier load remains.
C9_RanksArePositions ==
  [][\A i \in DOMAIN loads :
       (fetchDataCompletes(i) /\ loads[i].comparison.body # <<>>) =>
         LET comparisonData == loads[i].comparison.body[1]
         IN  IF comparisonData.projects = <<>>
             THEN auraRanks' = <<>>
             ELSE RanksOfPayload(comparisonData.projects[1], auraRanks',
                                 sortedProjects'[1])]_vars

\* a load after a time range change has ranked the payload c, a
C9_Witness ==
  /\ timeRange = "7d"
  /\ View = "main"
  /\ sortedProjects # <<>>
  /\ Names(sortedProjects[1]) = <<"a", "c">>
  /\ DOMAIN auraRanks = {"a", "c"}
  /\ auraRanks["a"] = 1
  /\ auraRanks["c"] = 2

\* C10 (as claimed): two distinct projects of a batch that do not both score
\* Infinity have different scores.
C10_StrictTotalOrder ==
  projectsWithAura # <<>> =>
    \A i, j \in DOMAIN projectsWithAura[1] :
      LET x == projectsWithAura[1][i]
          y == projectsWithAura[1][j]
      IN  (x.name # y.name
           /\ ~ (x.auraScore = Infinity /\ y.auraScore = Infinity))
          => x.auraScore # y.auraScore

\* C10 (amended): the ordering is a total preorder whose ties are the equal
\* scores, finite or Infinity: of two projects with different scores the
\* one with the higher score is ranked first, the comparison function is 0
\* exactly on equal scores, and projects with equal scores keep their order
\* of the fetched list.
C10_TotalPreorderWithTies ==
  projectsWithAura # <<>> =>
    LET ranked == projectsWithAura[1]
    IN  /\ \A i, j \in DOMAIN ranked :
             /\ ranked[i].auraScore > ranked[j].auraScore => i < j
             /\ compareFn(ranked[i], ranked[j]) = 0
                  <=> ranked[i].auraScore = ranked[j].auraScore
             /\ compareFn(ranked[i], ranked[j]) < 0
                  <=> ranked[i].auraScore > ranked[j].auraScore
        /\ \A k \in DOMAIN ranked :
             KeepsFetchedOrder(projects, ranked, ranked[k].auraScore)

\* the payload e, c, d, whose e and d both score -1000, has been ranked
\* c, e, d
C10_Witness ==
  /\ Names(projects) = <<"e", "c", "d">>
  /\ projectsWithAura # <<>>
  /\ Names(projectsWithAura[1]) = <<"c", "e", "d">>
  /\ projectsWithAura[1][2].auraScore = -1000
  /\ projectsWithAura[1][3].auraScore = -1000

\* ------------------------------------------------------------------------
\* The leaderboard contract of the specification (sections 4.3 and 8)
\* ------------------------------------------------------------------------

\* the positions a builder can have in an order of `list` by totalRevenue
\* descending: after the builders with more revenue, among those with as much
RevenuePositions(list, b) ==
  LET more == Cardinality({i \in DOMAIN list :
                             list[i].totalRevenue > b.totalRevenue})
      asMuch == Cardinality({i \in DOMAIN list :
                               list[i].totalRevenue >= b.totalRevenue})
  IN  (more + 1)..asMuch

RevenueDescending(seq) ==
  \A i, j \in DOMAIN seq : i < j => seq[i].totalRevenue >= seq[j].totalRevenue

RevenueAscending(seq) ==
  \A i, j \in DOMAIN seq : i < j => seq[i].totalRevenue <= seq[j].totalRevenue

\* seq holds the builders of list, each once (the builder codes of list are
\* distinct)
SameBuilders(seq, list) ==
  /\ Len(seq) = Len(list)
  /\ {seq[i] : i \in DOMAIN seq} = {list[i] : i \in DOMAIN list}

Reverse(seq) == [k \in DOMAIN seq |-> seq[Len(seq) + 1 - k]]

\* the position of a builder in the list
PositionIn(list, b) == CHOOSE i \in DOMAIN list : list[i] = b

\* C11: in every sort state that header clicks and page changes reach, the
\* rank shown in each displayed row is that builder's 1-indexed position by
\* totalRevenue descending.
C11_BadgeIsRevenuePosition ==
  LeaderboardShown =>
    \A k \in DOMAIN PageNow :
      rowRank(currentPage, k - 1) \in RevenuePositions(builders, PageNow[k])

C13_NameDescendingIsReverse ==
  (LeaderboardShown /\ sortField = "builderName" /\ sortDirection = "desc") =>
    SortedNow = Reverse(sortedBuilders(builders, auraRanks, "builderName",
                                       "asc"))

\* C13, amended: the names of the sequence sorted by builderName descending
\* are the reverse of the names of the sequence sorted ascending, and the
\* sequence itself is the reverse when the displayed names are distinct;
\* builders with the same displayed name keep the order of the builders list
\* in both directions.
C13_NameDescendingReversesNames ==
  (LeaderboardShown /\ sortField = "builderName" /\ sortDirection = "desc") =>
    LET asc == sortedBuilders(builders, auraRanks, "builderName", "asc")
        names(seq) == [k \in DOMAIN seq |-> displayName(seq[k])]
        keepsOrder(seq) ==
          \A i, j \in DOMAIN seq :
            (i < j /\ displayName(seq[i]) = displayName(seq[j]))
              => PositionIn(builders, seq[i]) < PositionIn(builders, seq[j])
    IN  /\ SameBuilders(SortedNow, builders)
        /\ names(SortedNow) = Reverse(names(asc))
        /\ keepsOrder(SortedNow)
        /\ keepsOrder(asc)
        /\ (\A i, j \in DOMAIN builders :
              displayName(builders[i]) = displayName(builders[j]) => i = j)
             => SortedNow = Reverse(asc)

\* sorted by builderName descending, two builders sharing a name and a third
\* with another name
C13_Witness ==
  /\ LeaderboardShown
  /\ sortField = "builderName"
  /\ sortDirection = "desc"
  /\ \E i, j, k \in DOMAIN builders :
       /\ i # j
       /\ displayName(builders[i]) = displayName(builders[j])
       /\ displayName(builders[k]) # displayName(builders[i])

\* C14: the BuilderLeaderboard starts with sortField totalRevenue and
\* sortDirection desc; handleSort(field) with the current sort field flips
\* sortDirection and leaves sortField, and with another field sets sortField
\* to it and sortDirection to 'desc'.
C14_HandleSort ==
  /\ sortField = "totalRevenue" /\ sortDirection = "desc"
  /\ [][\A field \in HeaderFields :
          handleSort(field) =>
            IF field = sortField
            THEN /\ sortField' = sortField
                 /\ sortDirection' \in SortDirections \ {sortDirection}
            ELSE /\ sortField' = field
                 /\ sortDirection' = "desc"]_vars

\* the Aura Rank header was clicked twice: handleSort has set the field,
\* with direction 'desc', and then flipped the direction
C14_Witness ==
  /\ LeaderboardShown
  /\ sortField = "auraRank"
  /\ sortDirection = "asc"

\* C15: every handleSort call, of a new field or of the current one, from
\* whatever page, leaves currentPage = 1.
C15_HandleSortResetsPage ==
  [][\A field \in HeaderFields : handleSort(field) => currentPage' = 1]_vars

\* a page after the first, where every header can be clicked
C15_Witness ==
  /\ LeaderboardShown
  /\ currentPage = 3
  /\ sortField = "builderName"

\* the least number of pages of 10 rows that hold n rows
PagesFor(n) == CHOOSE p \in 0..n : 10 * p >= n /\ (p = 0 \/ 10 * (p - 1) < n)

\* C16, as stated: with N builders there are ceil(N/10) pages, every page
\* but the last shows 10 rows, the last shows N - 10*(ceil(N/10)-1) rows, and
\* the Next button is disabled exactly when currentPage is the last page.
C16_PaginationNextDisabledOnLastPage ==
  LeaderboardShown =>
    LET N == Len(builders)
    IN  /\ totalPages(builders) = PagesFor(N)
        /\ currentPage < PagesFor(N) => Len(PageNow) = 10
        /\ currentPage = PagesFor(N)
             => Len(PageNow) = N - 10 * (PagesFor(N) - 1)
        /\ NextButton(builders, currentPage) = "disabled"
             <=> currentPage = PagesFor(N)

\* C16, amended: the pages and their rows are as stated; the Previous and
\* Next buttons are rendered only when there is more than one page, and then
\* Next is disabled exactly when currentPage is the last page; with at most
\* 10 builders there is no Next button, and with no builder there are 0
\* pages and page 1 shows no row.
C16_PaginationButtonsWhenSeveralPages ==
  LeaderboardShown =>
    LET N == Len(builders)
    IN  /\ totalPages(builders) = PagesFor(N)
        /\ currentPage < PagesFor(N) => Len(PageNow) = 10
        /\ currentPage = PagesFor(N)
             => Len(PageNow) = N - 10 * (PagesFor(N) - 1)
        /\ N = 0 => currentPage = 1 /\ PageNow = <<>>
        /\ PagesFor(N) > 1 =>
             (NextButton(builders, currentPage) = "disabled"
                <=> currentPage = PagesFor(N))
        /\ PagesFor(N) <= 1 => NextButton(builders, currentPage) = "absent"
        /\ (N = 25 /\ currentPage = 3) =>
             /\ Len(PageNow) = 5
             /\ NextButton(builders, currentPage) = "disabled"

\* 25 builders, page 3
C16_Witness ==
  /\ LeaderboardShown
  /\ Len(builders) = 25
  /\ currentPage = 3
  /\ Len(PageNow) = 5

\* ------------------------------------------------------------------------
\* The tiers of the aura view (section 4.2)
\* ------------------------------------------------------------------------

\* how many times a project is in a tier
CountIn(tier, p) == Cardinality({k \in DOMAIN tier : tier[k] = p})

\* C17: in the aura view, for a remainder of r >= 1 projects after the top
\* 3, top-tier is the first max(1, floor(0.2 r)) of them, cursed-tier the
\* last max(1, floor(0.2 r)), mid-tier the rest, and the three tiers
\* together are the remainder, each project in one tier; for r = 0 the three
\* tiers are empty.
C17_TiersPartitionRemainder ==
  AuraViewShown =>
    LET ranked == projectsWithAura[1]
        rest == SubSeq(ranked, 4, Len(ranked))
        r == Len(rest)
        size == IF r \div 5 > 1 THEN r \div 5 ELSE 1
    IN  IF r = 0
        THEN topTier(ranked) = <<>> /\ midTier(ranked) = <<>>
             /\ cursedTier(ranked) = <<>>
        ELSE /\ topTier(ranked) = SubSeq(rest, 1, size)
             /\ cursedTier(ranked) = SubSeq(rest, r - size + 1, r)
             /\ topTier(ranked) \o midTier(ranked) \o cursedTier(ranked)
                  = rest

\* ------------------------------------------------------------------------
\* The loads of the Dashboard (sections 5 and 6)
\* ------------------------------------------------------------------------

\* C18: the two fetches of a load are issued together, and dashboardData and
\* auraRanks are written by a load only when both of its fetches have
\* resolved with an ok response and both bodies have been read; never while
\* one of them is pending.
C18_WritesAfterBothResponses ==
  [][/\ Len(loads') > Len(loads) =>
          /\ loads'[Len(loads')].revenue = Pending
          /\ loads'[Len(loads')].comparison = Pending
     /\ (mounted' /\ (dashboardData' # dashboardData
                        \/ auraRanks' # auraRanks)) =>
          \E i \in DOMAIN loads :
            /\ loads[i].revenue.status = "ok"
            /\ loads[i].comparison.status = "ok"
            /\ loads' = RemoveAt(loads, i)
            /\ dashboardData' = loads[i].revenue.body]_vars

\* a later load whose revenue body has arrived while its comparison fetch is
\* pending: the data and the ranks are still those of the load before
C18_Witness ==
  \E i \in DOMAIN loads :
    /\ loads[i].revenue.status = "ok"
    /\ loads[i].revenue.body # <<>>
    /\ loads[i].comparison = Pending
    /\ dashboardData # <<>>
    /\ dashboardData # loads[i].revenue.body
    /\ auraRanks # <<>>

\* C19: when a load ends with the error set (a fetch rejected, a response
\* not ok, or a throw at a later step), error is the one message, loading is
\* false, and dashboardData and auraRanks are what they were before the load.
C19_FailedLoadKeepsState ==
  [][\A i \in DOMAIN loads :
       (mounted' /\ loads' = RemoveAt(loads, i) /\ error' # <<>>) =>
         /\ error' = <<ErrorMessage>>
         /\ loading' = FALSE
         /\ dashboardData' = dashboardData
         /\ auraRanks' = auraRanks]_vars

\* C20, as stated: in no reachable state are the Header and the leaderboard
\* displayed while InfrastructureComparison reports that its data failed to
\* load, and in no reachable state is InfrastructureComparison displayed
\* while the load of the Dashboard has failed.
C20_NoPartialDegradation ==
  /\ ~ (View = "main" /\ icMounted /\ icError # <<>>)
  /\ ~ (icMounted /\ error # <<>>)

\* C20, amended: a failure of a load of the Dashboard blanks the whole view:
\* while error is set the error view is all that is displayed, and
\* InfrastructureComparison is displayed only in the main view, with the
\* Header and the leaderboard, which needs a load that succeeded.
C20_DashboardFailureBlanksView ==
  /\ error # <<>> => (View = "error" /\ ~ icMounted)
  /\ icMounted => /\ View = "main"
                  /\ error = <<>>
                  /\ dashboardData # <<>>
                  /\ ~ loading

\* a load failed after an earlier load had succeeded and
\* InfrastructureComparison had been displayed: the data of the earlier
\* load is there, and the error view is displayed
C20_Witness ==
  /\ mounted
  /\ View = "error"
  /\ error # <<>>
  /\ dashboardData # <<>>
  /\ dashboardData[1].builders # <<>>
  /\ auraRanks # <<>>

\* C21: a successful response whose payload is empty or lacks the consumed
\* fields never crashes the view: the render of the Dashboard never throws.
C21_NoDataNeverCrashes == View # "crashed"

\* C22: once the error view is displayed, the only step that leaves it is
\* the reload of the Retry button, which puts the whole state back at its
\* initial values; no load is in flight and no other action changes
\* anything.
C22_OnlyReloadLeavesErrorView ==
  [][(mounted /\ View = "error") =>
       /\ loads = <<>>
       /\ ~ mounted'
       /\ timeRange' = "all"
       /\ dashboardData' = <<>>
       /\ auraRanks' = <<>>
       /\ loading' = TRUE
       /\ error' = <<>>
       /\ loads' = <<>>
       /\ ~ icMounted'
       /\ viewMode' = "aura"
       /\ sortField' = "totalRevenue"
       /\ sortDirection' = "desc"
       /\ currentPage' = 1]_vars

\* the error view after a load of another time range failed, the data and
\* the ranks of an earlier load still there
C22_Witness ==
  /\ mounted
  /\ View = "error"
  /\ timeRange # "all"
  /\ dashboardData # <<>>
  /\ auraRanks # <<>>

\* C23, as stated: the time range can be changed while an earlier load is in
\* flight, so that two loads are in flight and the earlier one can resolve
\* last.
C23_RangeChangeDuringLoad ==
  (mounted /\ loads # <<>>) =>
    ENABLED (\E range \in TimeRanges : onTimeRangeChange(range))

\* C23, amended: loads are never cancelled, but every load in flight is the
\* load of the selected time range, and every revenue body a load stores is
\* the body of the selected time range: no stale response overwrites
\* dashboardData.
C23_NoStaleLoad ==
  /\ [](\A i \in DOMAIN loads : loads[i].timeRange = timeRange)
  /\ [][(mounted' /\ dashboardData' # dashboardData /\ dashboardData' # <<>>)
          => dashboardData'[1].timeRange = timeRange']_vars

\* the time range was changed after a load had completed: the load of the
\* new range is in flight and the data is that of the range before
C23_Witness ==
  /\ mounted
  /\ loads # <<>>
  /\ dashboardData # <<>>
  /\ dashboardData[1].timeRange # timeRange
  /\ loads[1].revenue.status = "ok"

\* C25: at most one load of the Dashboard is in flight; while one is, the
\* spinner is all that is rendered and no time range can be chosen; a time
\* range can be chosen only when loading is false, error is null and
\* dashboardData is there.
C25_AtMostOneLoad ==
  /\ Len(loads) <= 1
  /\ loads # <<>> => /\ loading
                     /\ View = "spinner"
                     /\ ~ ENABLED (\E range \in TimeRanges :
                                     onTimeRangeChange(range))
  /\ ENABLED (\E range \in TimeRanges : onTimeRangeChange(range))
       => (~ loading /\ error = <<>> /\ dashboardData # <<>>)

\* a second load, in flight after a change of the time range
C25_Witness ==
  /\ mounted
  /\ Len(loads) = 1
  /\ timeRange # "all"
  /\ loads[1].comparison.status = "ok"
  /\ loads[1].revenue = Pending

C24_RanksAgreeAcrossViews ==
  (View = "main" /\ DetailedViewShown /\ UniqueNames(projects)) =>
    LET ranked == projectsWithAura[1]
    IN  /\ DOMAIN auraRanks = {ranked[k].name : k \in DOMAIN ranked}
        /\ \A k \in DOMAIN ranked :
             auraRanks[ranked[k].name] = detailedRank(k - 1)

\* four projects with unique names, ranked by both components in an order
\* that is not the fetched order
C24_Witness ==
  /\ View = "main"
  /\ DetailedViewShown
  /\ UniqueNames(projects)
  /\ Len(projects) = MaxProjects
  /\ Names(projectsWithAura[1]) # Names(projects)
  /\ \A k \in DOMAIN projectsWithAura[1] :
       auraRanks[projectsWithAura[1][k].name] = k

\* ------------------------------------------------------------------------
\* The page of the leaderboard (section 7)
\* ------------------------------------------------------------------------

\* C27: in every state of the leaderboard, after any sequence of Previous,
\* Next and handleSort, 1 <= currentPage <= max(1, totalPages) with
\* totalPages = ceil(N / 10); on page 1 Previous, and on the last page Next,
\* leave currentPage unchanged (the button is disabled or absent, and the
\* value its handler computes is the current page); the displayed page is
\* not empty when N >= 1.
C27_PageWithinRange ==
  LeaderboardShown =>
    LET N == Len(builders)
        pages == (N + 9) \div 10
        last == IF pages > 1 THEN pages ELSE 1
    IN  /\ totalPages(builders) = pages
        /\ 1 <= currentPage /\ currentPage <= last
        /\ currentPage = 1 =>
             /\ previousPage(currentPage) = currentPage
             /\ ~ ENABLED PreviousClick
        /\ currentPage = last =>
             /\ N >= 1 => nextPage(builders, currentPage) = currentPage
             /\ ~ ENABLED NextClick
        /\ N >= 1 => PageNow # <<>>

\* the last page of 25 builders, reached with Next, in a sort chosen in
\* the header: 5 rows
C27_Witness ==
  /\ LeaderboardShown
  /\ Len(builders) = 25
  /\ currentPage = 3
  /\ sortField = "builderName"
  /\ Len(PageNow) = 5

\* ------------------------------------------------------------------------
\* The position labels of the aura view (section 6)
\* ------------------------------------------------------------------------

\* C28: in the aura view, over the rows of top-tier, mid-tier and
\* cursed-tier together the position labels are exactly 4, 5, ..., n (n the
\* number of projects), each used once, and the label of a row is the
\* 1-indexed position of its project in the sorted sequence.
C28_TierLabelsArePositions ==
  AuraViewShown =>
    LET ranked == projectsWithAura[1]
        rows == tierRows(ranked)
    IN  /\ {rows[k].position : k \in DOMAIN rows} = 4 .. Len(ranked)
        /\ \A j, k \in DOMAIN rows :
             rows[j].position = rows[k].position => j = k
        /\ \A k \in DOMAIN rows :
             /\ rows[k].position \in DOMAIN ranked
             /\ ranked[rows[k].position] = rows[k].project

\* ------------------------------------------------------------------------
\* Remounting on a time range change (section 5)
\* ------------------------------------------------------------------------

\* the state of BuilderLeaderboard and of InfrastructureComparison right
\* after mounting, in the state reached by a step
LeaderboardFresh ==
  sortField' = "totalRevenue" /\ sortDirection' = "desc" /\ currentPage' = 1
InfraFresh ==
  /\ icMounted' /\ icLoading' /\ icFetch' = "pending"
  /\ data' = <<>> /\ icError' = <<>> /\ projectsWithAura' = <<>>
  /\ viewMode' = "aura"

\* C29: every time range change makes the Dashboard render only the spinner
\* until the load ends, with the leaderboard and the comparison section
\* unmounted; when the main view reappears the leaderboard has sortField
\* totalRevenue, sortDirection desc and currentPage 1, the comparison
\* section has viewMode 'aura' and data null, and the comparison section
\* has issued its fetch again.
C29_RangeChangeRemounts ==
  /\ []((mounted /\ loads # <<>>) => (View = "spinner" /\ ~ icMounted))
  /\ [](View # "main" =>
          /\ ~ icMounted /\ icFetch = "none"
          /\ sortField = "totalRevenue" /\ sortDirection = "desc"
          /\ currentPage = 1)
  /\ [][(mounted' /\ timeRange' # timeRange) =>
          /\ View = "main" /\ icMounted
          /\ View' = "spinner" /\ ~ icMounted'
          /\ Len(loads') = 1 /\ loads'[1].timeRange = timeRange'
          /\ loads'[1].comparison = Pending /\ loads'[1].revenue = Pending
          /\ LeaderboardFresh]_vars
  /\ [][(View # "main" /\ View' = "main") =>
          /\ loads # <<>> /\ loads' = <<>>
          /\ InfraFresh
          /\ LeaderboardFresh]_vars

\* the main view has reappeared after a time range change: the comparison
\* section is fetching again and the leaderboard is on page 1 of a list of
\* more than one page, sorted by revenue
C29_Witness ==
  /\ mounted /\ View = "main" /\ timeRange = "30d"
  /\ icMounted /\ icFetch = "pending" /\ data = <<>> /\ viewMode = "aura"
  /\ Len(builders) > itemsPerPage
  /\ sortField = "totalRevenue" /\ sortDirection = "desc"
  /\ currentPage = 1

\* ------------------------------------------------------------------------
\* Every load ends (sections 5 and 6)
\* ------------------------------------------------------------------------

\* C30: provided every fetch issued settles, every Dashboard load and every
\* InfrastructureComparison load ends with loading = false, on the success
\* path and on every failure path (an InfrastructureComparison unmounted by
\* a time range change before its fetch settles has no state left to set);
\* after an InfrastructureComparison load has ended, an error message is
\* set only if the data of that load was not stored.
C30_EveryLoadEnds ==
  /\ loading ~> ~ loading
  /\ (loads # <<>>) ~> (loads = <<>> /\ ~ loading)
  /\ (icMounted /\ icLoading) ~> (~ icLoading \/ ~ icMounted)
  /\ []((mounted /\ loads = <<>>) => ~ loading)
  /\ []((icMounted /\ icFetch = "none") => ~ icLoading)
  /\ [](icError # <<>> => (data = <<>> /\ ~ icLoading))

\* after a time range change the Dashboard load has ended with the main
\* view and the load of InfrastructureComparison has ended with an error
\* message and no data
C30_Witness ==
  /\ mounted /\ ~ loading /\ loads = <<>> /\ View = "main"
  /\ timeRange = "90d"
  /\ icMounted /\ ~ icLoading /\ icError # <<>> /\ data = <<>>


====
